---- MODULE Spec2Model ----
(***************************************************************************)
(* Bottom-up summarization of a call graph (semantic-indexer scripts).     *)
(*                                                                         *)
(*   summarizer.py       readiness queries and single-row updates          *)
(*   batch_summarize.py  the parallel batch driver                         *)
(*                                                                         *)
(* Text is modelled as a sequence of tokens: "" is <<>>, the token " " is  *)
(* white space, every other token is visible text.                         *)
(***************************************************************************)
EXTENDS Integers, Sequences, FiniteSets, TLC

VARIABLES
    functions,        \* functions table: function_id -> [name, file, summary]
    call_edges,       \* call_edges table: set of <<caller_id, callee_id>>
    preconditions,    \* preconditions table: function_id -> its rows, in insertion order
    postconditions,   \* postconditions table: function_id -> its rows, in insertion order
    pc,               \* position of batch_summarize.main
    count,            \* --count
    batch_size,       \* --batch-size
    total_processed,  \* main: total_processed
    level,            \* main: level
    batch,            \* main: batch (the functions dispatched in this level)
    results,          \* process_batch: the result of each task of batch, once it is done
    reply,            \* the last reply of a summarizer.py command
    commit_no,        \* history: number of save_results_to_db calls so far
    annotated_at,     \* history: commit_no of the commit that wrote each summary
    commits,          \* history: number of summary writes by commits, per function
    oracle_failed,    \* history: functions whose summary oracle call failed in this level
    task_errors,      \* history: functions whose task returned status error in this run
    last_committed,   \* history: functions written by the latest commit
    oracle_returned,  \* history: the condition lists parse_annotations gave, per function
    files,            \* the source files of the project, in the order os.walk yields them
    project_data      \* query_repo.py: project_data

store == <<functions, call_edges, preconditions, postconditions>>
driver == <<pc, count, batch_size, total_processed, level, batch, results>>
history == <<commit_no, annotated_at, commits, oracle_failed, task_errors, last_committed,
             oracle_returned>>
repo == <<files, project_data>>
vars == <<functions, call_edges, preconditions, postconditions, pc, count, batch_size,
          total_processed, level, batch, results, reply, commit_no, annotated_at,
          commits, oracle_failed, task_errors, last_committed, oracle_returned,
          files, project_data>>

---------------------------------------------------------------------------
(* Bounds of the model *)

NumFuncs == 3     \* at most this many rows in the functions table
MaxEdges == 2     \* at most this many rows in the call_edges table
MaxBatch == 2     \* largest --batch-size / --max tried
MaxStoreEdges == 3  \* call_edges rows when the commands run in any order

---------------------------------------------------------------------------
(* Text *)

EmptyStr == <<>>
Space == " "

RECURSIVE LStrip(_)
LStrip(s) == IF s # <<>> /\ Head(s) = Space THEN LStrip(Tail(s)) ELSE s

RECURSIVE RStrip(_)
RStrip(s) ==
    IF s # <<>> /\ s[Len(s)] = Space THEN RStrip(SubSeq(s, 1, Len(s) - 1)) ELSE s

\* str.strip()
Strip(s) == RStrip(LStrip(s))

\* (mutant) a slice that keeps the whole list
Prefix_Whole(s, n) == s

\* seq[:n]
Prefix(s, n) == SubSeq(s, 1, IF n < Len(s) THEN n ELSE Len(s))

\* sep.join(parts), parts a sequence of texts
RECURSIVE Join(_, _)
Join(parts, sep) ==
    IF parts = <<>> THEN <<>>
    ELSE IF Len(parts) = 1 THEN parts[1]
    ELSE parts[1] \o sep \o Join(Tail(parts), sep)

\* the elements of a finite set of integers, ascending
RECURSIVE Ascending(_)
Ascending(S) ==
    IF S = {} THEN <<>>
    ELSE LET m == CHOOSE x \in S : \A y \in S : x <= y
         IN <<m>> \o Ascending(S \ {m})

\* the sequences that list every element of S once
RECURSIVE Orders(_)
Orders(S) ==
    IF S = {} THEN {<<>>}
    ELSE UNION {{<<x>> \o t : t \in Orders(S \ {x})} : x \in S}

Range(s) == {s[i] : i \in 1..Len(s)}

---------------------------------------------------------------------------
(* The store *)

FuncIds == DOMAIN functions
Unannotated == {f \in FuncIds : functions[f].summary = EmptyStr}

\* SemanticIndex.get_function_info: the row, or None
NoRow == [function_id |-> 0, name |-> <<>>, file |-> <<>>, summary |-> <<>>]
get_function_info(fid) ==
    IF fid \in FuncIds
    THEN [function_id |-> fid, name |-> functions[fid].name,
          file |-> functions[fid].file, summary |-> functions[fid].summary]
    ELSE NoRow

\* SemanticIndex.get_callees: the rows of the callees that exist in functions
get_callees(fid) ==
    LET ids == Ascending({c \in FuncIds : <<fid, c>> \in call_edges})
    IN [i \in 1..Len(ids) |->
          [function_id |-> ids[i], function |-> functions[ids[i]].name,
           file |-> functions[ids[i]].file, summary |-> functions[ids[i]].summary]]

\* SemanticIndex.update_summary: UPDATE functions SET summary = ? WHERE function_id = ?
index_update_summary(fns, fid, summary) ==
    [f \in DOMAIN fns |-> IF f = fid THEN [fns[f] EXCEPT !.summary = summary] ELSE fns[f]]

---------------------------------------------------------------------------
(* summarizer.py *)

None == NoRow

RECURSIVE find_next_summary_target(_, _)
RECURSIVE VisitCallees(_, _, _, _)

\* the loop "for callee in callees" of find_next_summary_target: stops at the first
\* target, else accumulates all_callees_done / all_callees_summarized
VisitCallees(callees, i, visited, all_done) ==
    IF i > Len(callees)
    THEN [target |-> None, done |-> all_done, visited |-> visited, expanded |-> <<>>]
    ELSE LET r == find_next_summary_target(callees[i].function_id, visited)
         IN IF r.target # None
            THEN [target |-> r.target, done |-> FALSE, visited |-> r.visited,
                  expanded |-> r.expanded]
            ELSE LET rest == VisitCallees(callees, i + 1, r.visited, all_done /\ r.done)
                 IN [rest EXCEPT !.expanded = r.expanded \o @]

\* returns (target, is_subtree_summarized), the visited set as the call leaves it and,
\* in call order, the functions whose callees the call fetched with get_callees
find_next_summary_target(entry_id, visited) ==
    IF entry_id \in visited
    THEN LET func == get_function_info(entry_id)
         IN IF func # None /\ Strip(func.summary) # EmptyStr
            THEN [target |-> None, done |-> TRUE, visited |-> visited, expanded |-> <<>>]
            ELSE [target |-> None, done |-> FALSE, visited |-> visited, expanded |-> <<>>]
    ELSE LET v1 == visited \cup {entry_id}
             func == get_function_info(entry_id)
         IN IF func = None
            THEN [target |-> None, done |-> TRUE, visited |-> v1, expanded |-> <<>>]
            ELSE LET callees == get_callees(entry_id)
                     is_summarized == Strip(func.summary) # EmptyStr
                     r == VisitCallees(callees, 1, v1, TRUE)
                     Return(target, done) ==
                         [target |-> target, done |-> done, visited |-> r.visited,
                          expanded |-> <<entry_id>> \o r.expanded]
                 IN IF is_summarized
                    THEN IF r.target # None
                         THEN Return(r.target, FALSE)
                         ELSE Return(None, r.done)
                    ELSE IF r.target # None
                         THEN Return(r.target, FALSE)
                         ELSE IF r.done
                              THEN Return(func, FALSE)
                              ELSE Return(None, FALSE)

\* (mutant) a fresh visited set for every entry point
CarriedVisited_Fresh(visited) == {}

\* "visited = set()" of get_next_target is created once, before the loop: the set a
\* call leaves is the set the next call gets
CarriedVisited(visited) == visited

\* the loop "for func_id in all_funcs" of get_next_target, sharing one visited set;
\* calls lists, per call made, the entry point, the visited set handed in and the flag
\* returned
RECURSIVE TryRoots(_, _, _)
TryRoots(all_funcs, i, visited) ==
    IF i > Len(all_funcs) THEN [target |-> None, expanded |-> <<>>, calls |-> <<>>]
    ELSE LET r == find_next_summary_target(all_funcs[i], visited)
             call == [entry |-> all_funcs[i], visited |-> visited, done |-> r.done]
         IN IF r.target # None
            THEN [target |-> r.target, expanded |-> r.expanded, calls |-> <<call>>]
            ELSE LET rest == TryRoots(all_funcs, i + 1, CarriedVisited(r.visited))
                 IN [rest EXCEPT !.expanded = r.expanded \o @, !.calls = <<call>> \o @]

get_next_target ==
    LET all_funcs == Ascending(FuncIds)
    IN IF all_funcs = <<>>
       THEN [op |-> "next", status |-> "error", function_id |-> 0]
       ELSE LET target == TryRoots(all_funcs, 1, {}).target
            IN IF target # None
               THEN [op |-> "next", status |-> "needs_summary",
                     function_id |-> target.function_id]
               ELSE [op |-> "next", status |-> "complete", function_id |-> 0]

\* SELECT function_id FROM functions WHERE name = ? LIMIT 1
LookupByName(function_name) ==
    LET ids == {f \in FuncIds : functions[f].name = function_name}
    IN IF ids = {} THEN 0 ELSE CHOOSE f \in ids : \A g \in ids : f <= g

\* update_summary: function_id 0 stands for None; returns the reply and the table
update_summary(function_name, summary, function_id) ==
    LET func_id == IF function_id # 0 THEN function_id ELSE LookupByName(function_name)
    IN IF func_id = 0
       THEN [reply |-> [op |-> "update", status |-> "error", function_id |-> 0],
             functions |-> functions]
       ELSE [reply |-> [op |-> "update", status |-> "ok", function_id |-> func_id],
             functions |-> index_update_summary(functions, func_id, summary)]

\* (mutants) the WHERE clause without its NOT EXISTS, with a NOT EXISTS that forgets
\* the callee's summary, with a callee that need not be a row of functions, and
\* without the test of the function's own summary
ReadyForBatch_NoCalleeCheck(f) == functions[f].summary = EmptyStr

ReadyForBatch_AnyCalleeBlocks(f) ==
    /\ functions[f].summary = EmptyStr
    /\ ~ \E ce \in call_edges : ce[1] = f /\ ce[2] \in FuncIds

ReadyForBatch_UnknownCalleeBlocks(f) ==
    /\ functions[f].summary = EmptyStr
    /\ ~ \E ce \in call_edges :
           /\ ce[1] = f
           /\ (ce[2] \notin FuncIds \/ functions[ce[2]].summary = EmptyStr)

\* (mutant) the WHERE clause written as a join on call_edges, which drops the
\* functions that call nothing
ReadyForBatch_JoinOnEdges(f) ==
    /\ functions[f].summary = EmptyStr
    /\ \E ce \in call_edges : ce[1] = f
    /\ ~ \E ce \in call_edges :
           /\ ce[1] = f
           /\ ce[2] \in FuncIds
           /\ functions[ce[2]].summary = EmptyStr

ReadyForBatch_NoSummaryTest(f) ==
    ~ \E ce \in call_edges :
        /\ ce[1] = f
        /\ ce[2] \in FuncIds
        /\ functions[ce[2]].summary = EmptyStr

\* the WHERE clause of get_next_batch: summary = '' and no call edge to a row of
\* functions whose summary = ''
ReadyForBatch(f) ==
    /\ functions[f].summary = EmptyStr
    /\ ~ \E ce \in call_edges :
           /\ ce[1] = f
           /\ ce[2] \in FuncIds
           /\ functions[ce[2]].summary = EmptyStr

Ready == {f \in FuncIds : ReadyForBatch(f)}

BatchRow(f) == [function_id |-> f, name |-> functions[f].name, file |-> functions[f].file]

\* the row lists the query of get_next_batch can yield: LIMIT max_batch of the ready
\* rows, in a row order SQL leaves open; a negative LIMIT is no limit
BatchRows(max_batch) ==
    {[i \in 1..Len(p) |-> BatchRow(p[i])] :
        p \in {IF max_batch < 0 THEN o ELSE Prefix(o, max_batch) : o \in Orders(Ready)}}

\* (mutant) get_next_batch that reports an empty batch as complete without counting
get_next_batch_NoCount(rows, max_batch) ==
    IF rows = <<>>
    THEN [op |-> "next-batch", max |-> max_batch, status |-> "complete",
          batch |-> <<>>, total_remaining |-> 0]
    ELSE [op |-> "next-batch", max |-> max_batch, status |-> "ok",
          batch |-> rows, total_remaining |-> Cardinality(Unannotated)]

\* get_next_batch, given the rows its first query yielded
get_next_batch(rows, max_batch) ==
    IF rows = <<>>
    THEN LET remaining == Cardinality(Unannotated)
         IN IF remaining = 0
            THEN [op |-> "next-batch", max |-> max_batch, status |-> "complete",
                  batch |-> <<>>, total_remaining |-> 0]
            ELSE [op |-> "next-batch", max |-> max_batch, status |-> "blocked",
                  batch |-> <<>>, total_remaining |-> remaining]
    ELSE [op |-> "next-batch", max |-> max_batch, status |-> "ok",
          batch |-> rows, total_remaining |-> Cardinality(Unannotated)]

\* get_function_context
get_function_context(function_id) ==
    LET func == get_function_info(function_id)
    IN IF func = None
       THEN [status |-> "error", function |-> <<>>, file |-> <<>>, callees |-> <<>>]
       ELSE IF Strip(func.summary) # EmptyStr
       THEN [status |-> "already_summarized", function |-> func.name, file |-> <<>>,
             callees |-> <<>>]
       ELSE [status |-> "needs_summary", function |-> func.name, file |-> func.file,
             callees |-> get_callees(function_id)]

\* SELECT condition_text FROM ... WHERE function_id = ? ORDER BY sequence_order: the
\* lists the query can yield (rows of equal sequence_order come in any order)
ReadBacks(rows) ==
    {[i \in 1..Len(rows) |-> rows[o[i]].condition_text] :
        o \in {p \in Orders(1..Len(rows)) :
                  \A i, j \in 1..Len(rows) :
                      i < j => rows[p[i]].sequence_order <= rows[p[j]].sequence_order}}

---------------------------------------------------------------------------
(* batch_summarize.py *)

\* What the oracle process can do. Its output is a text together with the reading
\* parse_annotations makes of it: json.kind is "none" when the text holds no {...},
\* "bad" when json.loads rejects it and "object" otherwise; a missing key reads as the
\* default [] and a value that is no list has is_list FALSE.
NoJson == [kind |-> "none", pre_is_list |-> TRUE, pre |-> <<>>,
           post_is_list |-> TRUE, post |-> <<>>]
EmptyResponse == [text |-> EmptyStr, json |-> NoJson]

\* call_copilot: the stripped output of a run that exits 0 with visible output, else ""
call_copilot(outcome) ==
    IF /\ ~outcome.timeout
       /\ outcome.returncode = 0
       /\ outcome.stdout.text # EmptyStr
       /\ Strip(outcome.stdout.text) # EmptyStr
    THEN [text |-> Strip(outcome.stdout.text), json |-> outcome.stdout.json]
    ELSE EmptyResponse

\* parse_annotations: (pre, post)
parse_annotations(response) ==
    IF /\ response.json.kind = "object"
       /\ response.json.pre_is_list
       /\ response.json.post_is_list
    THEN [pre |-> response.json.pre, post |-> response.json.post]
    ELSE [pre |-> <<>>, post |-> <<>>]

\* the fallback summary of process_single_function
FallbackSummary(name, context) ==
    LET callees == Prefix(context.callees, 3)
        callee_names == [i \in 1..Len(callees) |-> callees[i].function]
    IN name \o <<": ">>
       \o (IF callee_names # <<>>
           THEN <<"Calls ">> \o Join(callee_names, <<", ">>) \o <<". ">>
           ELSE <<>>)
       \o <<"See source in ">> \o context.file \o <<".">>

\* a task that has not ended
Pending ==
    [function_id |-> 0, name |-> <<>>, status |-> "pending", summary |-> EmptyStr,
     preconditions |-> <<>>, postconditions |-> <<>>]

ErrorResult(func_info) ==
    [function_id |-> func_info.function_id, name |-> func_info.name, status |-> "error",
     summary |-> EmptyStr, preconditions |-> <<>>, postconditions |-> <<>>]

\* (mutant) process_single_function without the fallback summary
process_single_function_NoFallback(func_info, ctx, sum, ann) ==
    LET context == get_function_context(func_info.function_id)
    IN IF ctx # "ok" \/ context.status # "needs_summary"
       THEN ErrorResult(func_info)
       ELSE LET conds == parse_annotations(call_copilot(ann))
            IN [function_id |-> func_info.function_id, name |-> func_info.name,
                status |-> "ok", summary |-> call_copilot(sum).text,
                preconditions |-> Prefix(conds.pre, 3),
                postconditions |-> Prefix(conds.post, 3)]

\* process_single_function. ctx says how the context subprocess ended: "ok" (its JSON
\* reply is read), "nojson" (run_summarizer returns status error) or "timeout"
\* (run_summarizer raises); sum and ann are what the two oracle runs do.
process_single_function(func_info, ctx, sum, ann) ==
    LET context == get_function_context(func_info.function_id)
    IN IF ctx # "ok" \/ context.status # "needs_summary"
       THEN ErrorResult(func_info)
       ELSE LET answer == call_copilot(sum).text
                summary == IF answer = EmptyStr
                           THEN FallbackSummary(func_info.name, context)
                           ELSE answer
                conds == parse_annotations(call_copilot(ann))
            IN [function_id |-> func_info.function_id, name |-> func_info.name,
                status |-> "ok", summary |-> summary,
                preconditions |-> Prefix(conds.pre, 3),
                postconditions |-> Prefix(conds.post, 3)]

\* for i, text in enumerate(conditions): INSERT (func_id, text, i), onto the rows the
\* table holds for func_id
RowsOf(table, func_id) == IF func_id \in DOMAIN table THEN table[func_id] ELSE <<>>

InsertConditions(table, func_id, conditions) ==
    IF conditions = <<>> THEN table
    ELSE [f \in DOMAIN table \cup {func_id} |->
            IF f = func_id
            THEN RowsOf(table, f)
                 \o [i \in 1..Len(conditions) |->
                       [condition_text |-> conditions[i], sequence_order |-> i - 1]]
            ELSE table[f]]

\* save_results_to_db: the three tables after the loop over results and the commit
RECURSIVE save_results_to_db(_, _, _, _)
save_results_to_db(rs, fns, pre, post) ==
    IF rs = <<>> THEN [functions |-> fns, preconditions |-> pre, postconditions |-> post]
    ELSE LET r == Head(rs)
         IN IF r.status # "ok"
            THEN save_results_to_db(Tail(rs), fns, pre, post)
            ELSE save_results_to_db(
                     Tail(rs),
                     [f \in DOMAIN fns |->
                        IF f = r.function_id
                        THEN [fns[f] EXCEPT !.summary = r.summary] ELSE fns[f]],
                     InsertConditions(pre, r.function_id, r.preconditions),
                     InsertConditions(post, r.function_id, r.postconditions))

\* (mutant) a batch in which one task failed hands nothing to the commit
Successful_AllOrNothing(rs) ==
    IF \E i \in 1..Len(rs) : rs[i].status # "ok" THEN <<>> ELSE rs

\* successful = [r for r in results if r.get("status") == "ok"]
Successful(rs) == SelectSeq(rs, LAMBDA r : r.status = "ok")

\* The same function, one conn.execute at a time: the statements the loop of
\* save_results_to_db sends to its connection, in order
Statement(kind, func_id, text, seq) ==
    [kind |-> kind, function_id |-> func_id, text |-> text, sequence_order |-> seq]

RECURSIVE Statements(_)
Statements(rs) ==
    IF rs = <<>> THEN <<>>
    ELSE LET r == Head(rs)
         IN (IF r.status # "ok" THEN <<>>
             ELSE <<Statement("summary", r.function_id, r.summary, 0)>>
                  \o [i \in 1..Len(r.preconditions) |->
                        Statement("precondition", r.function_id, r.preconditions[i],
                                  i - 1)]
                  \o [i \in 1..Len(r.postconditions) |->
                        Statement("postcondition", r.function_id, r.postconditions[i],
                                  i - 1)])
            \o Statements(Tail(rs))

\* INSERT INTO table (function_id, condition_text, sequence_order) VALUES (?, ?, ?)
InsertRow(table, func_id, text, seq) ==
    [f \in DOMAIN table \cup {func_id} |->
        IF f = func_id
        THEN Append(RowsOf(table, f), [condition_text |-> text, sequence_order |-> seq])
        ELSE table[f]]

\* one conn.execute on the tables db as the connection sees them
Execute(st, db) ==
    IF st.kind = "summary"
    THEN [db EXCEPT !.functions =
             [f \in DOMAIN db.functions |->
                 IF f = st.function_id
                 THEN [db.functions[f] EXCEPT !.summary = st.text]
                 ELSE db.functions[f]]]
    ELSE IF st.kind = "precondition"
    THEN [db EXCEPT !.preconditions =
             InsertRow(db.preconditions, st.function_id, st.text, st.sequence_order)]
    ELSE [db EXCEPT !.postconditions =
             InsertRow(db.postconditions, st.function_id, st.text, st.sequence_order)]

\* the tables as the connection sees them after the first n statements
RECURSIVE ExecuteFirst(_, _, _)
ExecuteFirst(stmts, n, db) ==
    IF n = 0 \/ stmts = <<>> THEN db
    ELSE ExecuteFirst(Tail(stmts), n - 1, Execute(Head(stmts), db))

\* (mutant) a connection in autocommit mode: each statement is durable at once
Committed_Autocommit(stmts, n, db) == ExecuteFirst(stmts, n, db)

\* What the database holds once save_results_to_db has ended after n of its
\* statements. sqlite3.connect opens the transaction at the first statement and the
\* only conn.commit() follows the loop: it is reached when every statement ran, and a
\* statement that raises leaves the function with the transaction rolled back.
Committed(stmts, n, db) ==
    IF n = Len(stmts) THEN ExecuteFirst(stmts, n, db) ELSE db

---------------------------------------------------------------------------
(* summarizer.py: add_annotation *)

\* SELECT COALESCE(MAX(sequence_order), -1) + 1 FROM table WHERE function_id = ?
NextSequenceOrder(rows) ==
    IF rows = <<>> THEN 0
    ELSE (CHOOSE m \in {rows[i].sequence_order : i \in 1..Len(rows)} :
              \A i \in 1..Len(rows) : rows[i].sequence_order <= m) + 1

\* add_annotation: function_id 0 stands for None; returns the reply and the two tables
add_annotation(function_name, ann_type, text, function_id) ==
    LET func_id == IF function_id # 0 THEN function_id ELSE LookupByName(function_name)
    IN IF func_id = 0
       THEN [reply |-> [op |-> "annotate", status |-> "error", function |-> function_name],
             preconditions |-> preconditions, postconditions |-> postconditions]
       ELSE LET table == IF ann_type = "precondition" THEN preconditions
                         ELSE postconditions
                seq == NextSequenceOrder(RowsOf(table, func_id))
                inserted == InsertRow(table, func_id, text, seq)
            IN [reply |-> [op |-> "annotate", status |-> "ok",
                           function |-> function_name],
                preconditions |-> IF ann_type = "precondition" THEN inserted
                                  ELSE preconditions,
                postconditions |-> IF ann_type = "precondition" THEN postconditions
                                   ELSE inserted]

---------------------------------------------------------------------------
(* query_repo.py *)

\* A source file is a record [path, lang, tree]: lang is the language its extension
\* stands for, tree what parse_all_function_info reads of its parse tree: the
\* function_definition nodes in document order, each with the name the code derives
\* for it (NoName when it derives none) and its call nodes in document order, and the
\* names of the preproc_function_def nodes. A call node keeps the called expression
\* fn and the argument expressions args; an expression keeps the text of the first
\* qualified_identifier in it, of the field_identifier of the first field_expression
\* in it and of the first identifier in it (NoName where there is none). Source
\* positions are not kept.
NoName == ""
NoPath == ""

Expr(qualified, field, identifier) ==
    [qualified |-> qualified, field |-> field, identifier |-> identifier]

Call(fn, args) == [fn |-> fn, args |-> args]

\* find_first_node_by_type(call_node, ...): breadth first, so the called expression
\* comes before the arguments; part is "qualified", "field" or "identifier"
find_first_node_by_type(call_node, part) ==
    LET exprs == <<call_node.fn>> \o call_node.args
        found == {i \in 1..Len(exprs) : exprs[i][part] # NoName}
    IN IF found = {} THEN NoName
       ELSE exprs[CHOOSE i \in found : \A j \in found : i <= j][part]

\* the name parse_all_function_info derives for a call node: for C and C++ the first
\* qualified identifier, else the field of the first field expression, else the first
\* identifier; for Python the first identifier
called_name_of(call_node, programming_language) ==
    IF programming_language = "python"
    THEN find_first_node_by_type(call_node, "identifier")
    ELSE IF find_first_node_by_type(call_node, "qualified") # NoName
         THEN find_first_node_by_type(call_node, "qualified")
         ELSE IF find_first_node_by_type(call_node, "field") # NoName
              THEN find_first_node_by_type(call_node, "field")
              ELSE find_first_node_by_type(call_node, "identifier")

\* A Python set is modelled by the list of its elements in the order they were added;
\* a dict by the function from its keys.
EmptyDict == [k \in {} |-> <<>>]

\* (mutant) a list that takes every element
set_add_Append(s, x) == Append(s, x)

\* set.add
set_add(s, x) == IF x \in Range(s) THEN s ELSE Append(s, x)

\* if key not in d: d[key] = set(); d[key].add(x)
dict_add(d, key, x) ==
    [k \in DOMAIN d \cup {key} |->
        IF k = key THEN set_add(IF key \in DOMAIN d THEN d[key] ELSE <<>>, x) ELSE d[k]]

\* d[key] = value
dict_set(d, key, value) ==
    [k \in DOMAIN d \cup {key} |-> IF k = key THEN value ELSE d[k]]

\* (mutant) a call recorded in the callee index only
RecordCall_CalleesOnly(info, function_name, called_name) ==
    [info EXCEPT !.fun_callee_info = dict_add(@, function_name, called_name)]

\* "if called_name:" of parse_all_function_info: both indexes take the call
RecordCall(info, function_name, called_name) ==
    [info EXCEPT !.fun_call_info = dict_add(@, called_name, function_name),
                 !.fun_callee_info = dict_add(@, function_name, called_name)]

\* the loop "for call_node in call_nodes"
RECURSIVE ParseCalls(_, _, _, _, _)
ParseCalls(info, function_name, call_nodes, i, programming_language) ==
    IF i > Len(call_nodes) THEN info
    ELSE LET called_name == called_name_of(call_nodes[i], programming_language)
         IN ParseCalls(IF called_name # NoName
                       THEN RecordCall(info, function_name, called_name)
                       ELSE info,
                       function_name, call_nodes, i + 1, programming_language)

\* the loop "for node in all_function_nodes"; a node is known by its position
RECURSIVE ParseDefinitions(_, _, _, _)
ParseDefinitions(info, nodes, i, programming_language) ==
    IF i > Len(nodes) THEN info
    ELSE LET function_name == nodes[i].name
         IN IF function_name = NoName
            THEN ParseDefinitions(info, nodes, i + 1, programming_language)
            ELSE ParseDefinitions(
                     ParseCalls([info EXCEPT !.fun_info = dict_set(@, function_name, i)],
                                function_name, nodes[i].calls, 1, programming_language),
                     nodes, i + 1, programming_language)

\* the loop "for node in all_def_funciton_nodes"
RECURSIVE ParseMacros(_, _, _, _)
ParseMacros(info, macros, j, base) ==
    IF j > Len(macros) THEN info
    ELSE ParseMacros([info EXCEPT !.fun_info = dict_set(@, macros[j], base + j)],
                     macros, j + 1, base)

\* parse_all_function_info: (fun_info, fun_call_info, fun_callee_info)
parse_all_function_info(tree, programming_language) ==
    LET empty == [fun_info |-> EmptyDict, fun_call_info |-> EmptyDict,
                  fun_callee_info |-> EmptyDict]
    IN IF programming_language \in {"c", "cpp"}
       THEN ParseMacros(ParseDefinitions(empty, tree.defs, 1, programming_language),
                        tree.macros, 1, Len(tree.defs))
       ELSE IF programming_language = "python"
       THEN ParseDefinitions(empty, tree.defs, 1, programming_language)
       ELSE empty

\* project_data as the module creates it; paths is the insertion order of the keys of
\* its dicts (types, defines and classes hold an empty dict per file and are left out)
EmptyProjectData ==
    [paths |-> <<>>, functions |-> EmptyDict, function_calls |-> EmptyDict,
     function_callees |-> EmptyDict]

\* init: the loop over the files, from the i-th on
RECURSIVE init(_, _, _)
init(data, fs, i) ==
    IF i > Len(fs) THEN data
    ELSE LET file_path == fs[i].path
             parsed == parse_all_function_info(fs[i].tree, fs[i].lang)
         IN init([paths |-> set_add(data.paths, file_path),
                  functions |-> dict_set(data.functions, file_path, parsed.fun_info),
                  function_calls |->
                      dict_set(data.function_calls, file_path, parsed.fun_call_info),
                  function_callees |->
                      dict_set(data.function_callees, file_path, parsed.fun_callee_info)],
                 fs, i + 1)

AlreadyVisited == "Already visited (cycle)"

\* the file build_call_graph takes the function from: file_path if it defines the
\* function, else the first file of project_data["functions"] that does, else none
target_path_of(function_name, file_path) ==
    IF /\ file_path # NoPath
       /\ file_path \in DOMAIN project_data.functions
       /\ function_name \in DOMAIN project_data.functions[file_path]
    THEN file_path
    ELSE LET hits == {i \in 1..Len(project_data.paths) :
                         function_name \in
                             DOMAIN project_data.functions[project_data.paths[i]]}
         IN IF hits = {} THEN NoPath
            ELSE project_data.paths[CHOOSE i \in hits : \A j \in hits : i <= j]

\* build_call_graph: the results it can return, each with the visited set as the
\* call leaves it; the loop over the set callees runs in an order Python leaves open
RECURSIVE build_call_graph(_, _, _)
RECURSIVE BuildCalls(_, _, _)

BuildCalls(order, i, visited) ==
    IF i > Len(order) THEN {[calls |-> <<>>, visited |-> visited]}
    ELSE UNION {{[calls |-> <<sub.graph>> \o rest.calls, visited |-> rest.visited] :
                    rest \in BuildCalls(order, i + 1, sub.visited)} :
                sub \in build_call_graph(order[i], visited, NoPath)}

build_call_graph(function_name, visited, file_path) ==
    IF function_name \in visited
    THEN {[graph |-> [function |-> function_name, calls |-> AlreadyVisited],
           visited |-> visited]}
    ELSE LET v1 == visited \cup {function_name}
             target_path == target_path_of(function_name, file_path)
         IN IF target_path = NoPath
            THEN {[graph |-> [file |-> "unknown", function |-> function_name,
                              calls |-> <<>>],
                   visited |-> v1]}
            ELSE LET by_name == project_data.function_callees[target_path]
                     callees == IF function_name \in DOMAIN by_name
                                THEN by_name[function_name] ELSE <<>>
                 IN UNION {{[graph |-> [file |-> target_path, function |-> function_name,
                                        calls |-> r.calls],
                             visited |-> r.visited] :
                               r \in BuildCalls(order, 1, v1)} :
                           order \in Orders(Range(callees))}

---------------------------------------------------------------------------
(* The environment: the oracle runs, the indexed project, the command line *)

Run(timeout, returncode, text, json) ==
    [timeout |-> timeout, returncode |-> returncode,
     stdout |-> [text |-> text, json |-> json]]

Object(pre_is_list, pre, post_is_list, post) ==
    [kind |-> "object", pre_is_list |-> pre_is_list, pre |-> pre,
     post_is_list |-> post_is_list, post |-> post]

\* runs of the summary prompt
SummaryRuns ==
    { Run(TRUE, 0, EmptyStr, NoJson),                    \* timeout
      Run(FALSE, 1, <<"T1">>, NoJson),                   \* non-zero exit
      Run(FALSE, 0, EmptyStr, NoJson),                   \* no output
      Run(FALSE, 0, <<Space>>, NoJson),                  \* white space only
      Run(FALSE, 0, <<Space, "T1", Space>>, NoJson) }    \* a summary

\* runs of the annotations prompt
AnnotationRuns ==
    { Run(TRUE, 0, EmptyStr, NoJson),
      Run(FALSE, 0, <<"prose">>, NoJson),
      Run(FALSE, 0, <<"{">>, [NoJson EXCEPT !.kind = "bad"]),
      Run(FALSE, 0, <<"json">>, Object(FALSE, <<>>, TRUE, <<"q1">>)),
      Run(FALSE, 0, <<"json">>,
          Object(TRUE, <<"p1", "p2", "p3", "p4">>, TRUE, <<"q1">>)) }

ContextRuns == {"ok", "nojson", "timeout"}

FuncNames == <<"a", "b", "c", "d", "e", "f", "g", "h">>
NameOf(f) == <<FuncNames[((f - 1) % Len(FuncNames)) + 1]>>
FileOf(f) == <<"x.c">>

\* the callee ids an edge can carry: the ids of the table and one that matches no row
CalleeIds == 1..(NumFuncs + 1)

\* the sets of at most k call edges out of the functions 1..n
RECURSIVE EdgeSets(_, _)
EdgeSets(n, k) ==
    IF k = 0 THEN {{}}
    ELSE LET smaller == EdgeSets(n, k - 1)
         IN smaller \cup {E \cup {e} : E \in smaller, e \in (1..n) \X CalleeIds}

\* --count: none, one, and around the number of functions
Counts == {0, 1, NumFuncs - 1, NumFuncs}
\* --batch-size / --max: no limit (negative), zero, one, and a larger limit
BatchSizes == {-1, 0, 1, MaxBatch}

NoReply == [op |-> "none", status |-> "none"]

\* a freshly indexed project: no summary, no condition
InitStore ==
    /\ \E n \in 0..NumFuncs :
         /\ functions = [f \in 1..n |->
                           [name |-> NameOf(f), file |-> FileOf(f), summary |-> EmptyStr]]
         /\ call_edges \in EdgeSets(n, MaxEdges)
    /\ preconditions = [f \in FuncIds |-> <<>>]
    /\ postconditions = [f \in FuncIds |-> <<>>]
    /\ reply = NoReply

\* no source file read, query_repo.py not initialised
NoProject ==
    /\ files = <<>>
    /\ project_data = EmptyProjectData

InitHistory ==
    /\ commit_no = 0
    /\ annotated_at = [f \in FuncIds |-> 0]
    /\ commits = [f \in FuncIds |-> 0]
    /\ oracle_failed = {}
    /\ task_errors = {}
    /\ last_committed = {}
    /\ oracle_returned = [f \in FuncIds |-> [pre |-> <<>>, post |-> <<>>]]

---------------------------------------------------------------------------
(* batch_summarize.main *)

Init ==
    /\ InitStore
    /\ InitHistory
    /\ NoProject
    /\ pc = "loop"
    /\ count \in Counts
    /\ batch_size \in BatchSizes
    /\ total_processed = 0
    /\ level = 0
    /\ batch = <<>>
    /\ results = <<>>

\* while total_processed < args.count: ... is false: leave the loop
LoopExit ==
    /\ pc = "loop"
    /\ total_processed >= count
    /\ pc' = "done"
    /\ UNCHANGED <<repo, store, count, batch_size, total_processed, level, batch, results,
                   reply, history>>

\* the head of the loop body: run next-batch and either stop or fix this level's batch.
\* failed: the next-batch subprocess printed no JSON, so run_summarizer returns status
\* error and main breaks out of the loop (a subprocess that times out ends main too).
NextBatch ==
    /\ pc = "loop"
    /\ total_processed < count
    /\ \E rows \in BatchRows(batch_size), failed \in BOOLEAN :
         LET batch_result ==
                 IF failed THEN [op |-> "next-batch", max |-> batch_size,
                                 status |-> "error", batch |-> <<>>,
                                 total_remaining |-> 0]
                 ELSE get_next_batch(rows, batch_size)
         IN /\ reply' = batch_result
            /\ IF batch_result.status = "complete" \/ batch_result.status # "ok"
                  \/ batch_result.batch = <<>>
               THEN /\ pc' = "done"
                    /\ UNCHANGED <<batch, level, results, oracle_failed>>
               ELSE /\ batch' = Prefix(batch_result.batch, count - total_processed)
                    /\ level' = level + 1
                    /\ results' = [i \in 1..Len(batch') |-> Pending]
                    /\ oracle_failed' = {}
                    /\ pc' = "run"
    /\ UNCHANGED <<repo, store, count, batch_size, total_processed, commit_no, annotated_at,
                   commits, task_errors, last_committed, oracle_returned>>

\* process_batch: one task of the pool runs process_single_function to its end and
\* as_completed hands its result over. results holds it at the task's place in batch:
\* the functions of a batch are distinct rows, so the order in which the tasks end
\* changes nothing of what save_results_to_db stores.
Task ==
    /\ pc = "run"
    /\ \E i \in 1..Len(batch), ctx \in ContextRuns, sum \in SummaryRuns,
          ann \in AnnotationRuns :
         /\ results[i] = Pending
         /\ LET result == process_single_function(batch[i], ctx, sum, ann)
                f == batch[i].function_id
            IN /\ results' = [results EXCEPT ![i] = result]
               /\ oracle_failed' =
                     IF result.status = "ok" /\ call_copilot(sum) = EmptyResponse
                     THEN oracle_failed \cup {f} ELSE oracle_failed
               /\ task_errors' =
                     IF result.status # "ok" THEN task_errors \cup {f} ELSE task_errors
               /\ oracle_returned' =
                     IF result.status = "ok"
                     THEN [oracle_returned EXCEPT
                              ![f] = parse_annotations(call_copilot(ann))]
                     ELSE oracle_returned
    /\ UNCHANGED <<repo, store, pc, count, batch_size, total_processed, level, batch, reply,
                   commit_no, annotated_at, commits, last_committed>>

\* (mutant) a pool that hands the results over before its tasks have ended
AllTasksDone_NotAwaited == TRUE

\* process_batch returns: the with block of the pool and the loop over as_completed
\* end only when every future of the batch is done
AllTasksDone == \A i \in 1..Len(results) : results[i] # Pending

\* how many results of rs write function f
RECURSIVE Writes(_, _)
Writes(rs, f) ==
    IF rs = <<>> THEN 0
    ELSE (IF Head(rs).status = "ok" /\ Head(rs).function_id = f THEN 1 ELSE 0)
         + Writes(Tail(rs), f)

\* the tail of the loop body, once every task of the pool is done: filter, save, count
Save ==
    /\ pc = "run"
    /\ AllTasksDone
    /\ LET successful == Successful(results)
           saved == save_results_to_db(successful, functions, preconditions,
                                       postconditions)
           written == {f \in FuncIds : Writes(successful, f) > 0}
       IN /\ functions' = saved.functions
          /\ preconditions' = saved.preconditions
          /\ postconditions' = saved.postconditions
          /\ commit_no' = commit_no + 1
          /\ annotated_at' = [f \in FuncIds |->
                                IF f \in written THEN commit_no + 1 ELSE annotated_at[f]]
          /\ commits' = [f \in FuncIds |-> commits[f] + Writes(successful, f)]
          /\ last_committed' = written
    /\ total_processed' = total_processed + Len(batch)
    /\ pc' = "loop"
    \* batch and results are not read again before the next level assigns them
    /\ batch' = <<>>
    /\ results' = <<>>
    /\ UNCHANGED <<repo, call_edges, count, batch_size, level, reply, oracle_failed,
                   task_errors, oracle_returned>>

\* save_results_to_db raises at one of its statements (the database is locked, a
\* value cannot be bound, the disk is full): nothing in main catches it, main ends
SaveError ==
    /\ pc = "run"
    /\ AllTasksDone
    /\ LET stmts == Statements(Successful(results))
           db == [functions |-> functions, preconditions |-> preconditions,
                  postconditions |-> postconditions]
       IN \E n \in 0..(Len(stmts) - 1) :
              LET after == Committed(stmts, n, db)
              IN /\ functions' = after.functions
                 /\ preconditions' = after.preconditions
                 /\ postconditions' = after.postconditions
    /\ reply' = [op |-> "save", status |-> "error"]
    /\ pc' = "done"
    /\ UNCHANGED <<repo, call_edges, count, batch_size, total_processed, level, batch, results,
                   history>>

Next == LoopExit \/ NextBatch \/ Task \/ Save \/ SaveError

Spec == Init /\ [][Next]_vars

\* the driver is one sequential program and every subprocess it waits for has a
\* timeout, so a step that can be taken is taken
FairSpec == Spec /\ WF_vars(Next)

---------------------------------------------------------------------------
(* The call graph *)

KnownEdges == {e \in call_edges : e[1] \in FuncIds /\ e[2] \in FuncIds}
KnownCallees(f) == {e[2] : e \in {x \in KnownEdges : x[1] = f}}

RECURSIVE ReachedWithin(_, _)
ReachedWithin(S, n) ==
    IF n = 0 THEN S
    ELSE ReachedWithin(S \cup UNION {KnownCallees(g) : g \in S}, n - 1)

\* the functions reached from f by one call or more
Descendants(f) == ReachedWithin(KnownCallees(f), Cardinality(FuncIds))
OnCycle(f) == f \in Descendants(f)
Acyclic == \A f \in FuncIds : ~OnCycle(f)
Annotated(f) == functions[f].summary # EmptyStr
AllAnnotated == \A f \in FuncIds : Annotated(f)
Ids(rows) == {rows[i].function_id : i \in 1..Len(rows)}

\* the readiness predicate: unannotated, every callee that exists is annotated
IsReady(f) == ~Annotated(f) /\ \A c \in KnownCallees(f) : Annotated(c)

---------------------------------------------------------------------------
(* Claims on the batch driver *)

\* C1: in a driver run started with every summary empty, a function is annotated
\* only by a commit that comes strictly after the commits that annotated each of its
\* callees that exist in the functions table; so along every call edge between
\* annotated known functions the callee was annotated first.
C1_CalleesAnnotatedFirst ==
    \A e \in KnownEdges :
        Annotated(e[1]) =>
            /\ Annotated(e[2])
            /\ 0 < annotated_at[e[2]]
            /\ annotated_at[e[2]] < annotated_at[e[1]]

C1_Witness ==
    /\ pc = "done"
    /\ \E e \in KnownEdges : Annotated(e[1]) /\ Annotated(e[2]) /\ annotated_at[e[1]] = 2

\* main (1) calls helper (2), helper calls nothing
ExampleGraph == FuncIds = {1, 2} /\ call_edges = {<<1, 2>>}

ExampleBatches ==
    (ExampleGraph /\ pc = "run") =>
        /\ level = 1 => Ids(batch) = {2}
        /\ (level = 2 /\ task_errors = {}) => Ids(batch) = {1}

CleanRun == task_errors = {} /\ reply.status # "error" /\ batch_size # 0

C3_CycleMembersAnnotated ==
    (pc = "done" /\ CleanRun /\ total_processed < count) =>
        \A f \in FuncIds : OnCycle(f) => Annotated(f)

\* the functions from which a cycle of call edges between known functions is
\* reachable: the members of cycles and their direct or transitive callers
ReachesCycle == {f \in FuncIds : OnCycle(f) \/ \E g \in Descendants(f) : OnCycle(g)}

C4_OracleFailureLeavesUnannotated ==
    (pc = "loop" /\ commit_no > 0) =>
        \A f \in oracle_failed :
            /\ ~Annotated(f)
            /\ preconditions[f] = <<>>
            /\ postconditions[f] = <<>>

\* C5: when the oracle call for the single callee C of F failed in a batch, the
\* next get_next_batch finds F unannotated and does not return it.
C5_CallerOfFailedCalleeNotReady ==
    (pc = "loop" /\ commit_no > 0) =>
        \A F \in FuncIds, C \in oracle_failed :
            (F # C /\ {e \in call_edges : e[1] = F} = {<<F, C>>}) =>
                /\ ~Annotated(F)
                /\ \A N \in BatchSizes : \A rows \in BatchRows(N) :
                       F \notin Ids(get_next_batch(rows, N).batch)

\* C6: within one driver run every function is committed at most once: it is
\* annotated exactly when one commit has written it, and no commit writes it again.
C6_CommittedAtMostOnce ==
    \A f \in FuncIds :
        /\ commits[f] <= 1
        /\ Annotated(f) <=> commits[f] = 1

C6_Witness ==
    /\ pc = "done" /\ level >= 2
    /\ \E f \in FuncIds : commits[f] = 1 /\ annotated_at[f] = 1

\* C8: get_next_batch never returns a function whose summary is non-empty, and
\* asked right after a commit (one whose tasks all succeeded, or any other) it
\* returns none of the functions that commit wrote.
C8_BatchHoldsNoAnnotated ==
    \A N \in BatchSizes : \A rows \in BatchRows(N) :
        LET r == get_next_batch(rows, N)
        IN /\ \A f \in Ids(r.batch) : functions[f].summary = EmptyStr
           /\ pc = "loop" => Ids(r.batch) \cap last_committed = {}

C8_Witness ==
    /\ pc = "loop" /\ last_committed # {} /\ task_errors = {}
    /\ \E rows \in BatchRows(MaxBatch) : get_next_batch(rows, MaxBatch).status = "ok"

\* C13: whatever the call graph and the outcomes of the tasks, the driver loop
\* terminates; every iteration either stops the loop or dispatches at least one
\* function; the functions dispatched in a run never number more than --count; and
\* after a blocked reply the driver is done and takes no further step.
C13_DriverTerminates ==
    /\ <>(pc = "done")
    /\ [][pc = "loop" => (pc' = "done" \/ (pc' = "run" /\ Len(batch') >= 1))]_vars
    /\ [](total_processed + Len(batch) <= count)
    /\ [](reply.status = "blocked" => pc = "done")
    /\ [][pc # "done"]_vars

C13_Witness ==
    /\ pc = "done" /\ reply.status = "blocked" /\ level >= 1
    /\ FuncIds = {1, 2, 3} /\ {<<1, 2>>, <<2, 1>>} \subseteq call_edges
    /\ total_processed < count

\* what the traversal of find_next_summary_target tests: text left after strip()
Summarized(f) == Strip(functions[f].summary) # EmptyStr

C15_NoSiblingContext ==
    /\ [](pc = "run" =>
            \A i, j \in 1..Len(batch) :
                <<batch[i].function_id, batch[j].function_id>> \notin call_edges)
    /\ [][(pc = "run" /\ \E i \in 1..Len(results) : results[i] = Pending)
             => UNCHANGED store]_vars
    /\ [](pc = "run" =>
            \A i \in 1..Len(batch) :
                LET context == get_function_context(batch[i].function_id)
                IN \A k \in 1..Len(context.callees) :
                       LET c == context.callees[k]
                       IN \/ c.summary = EmptyStr
                          \/ /\ c.function_id \notin Ids(batch)
                             /\ 0 < annotated_at[c.function_id]
                             /\ annotated_at[c.function_id] <= commit_no
                             /\ commit_no < level)

C15_Witness ==
    /\ pc = "run" /\ Len(batch) = 2 /\ level = 2
    /\ results[1] # Pending /\ results[2] = Pending
    /\ \E i \in 1..2 : get_function_context(batch[i].function_id).callees # <<>>

\* C16: the driver asks for the next batch only when every task of the current batch
\* has ended and its commit is done; the store is written only by the commit step,
\* only when no task of the batch is still running, one commit per batch and one
\* after the other.
C16_OneWriterAtATime ==
    /\ [][(level' # level \/ (reply' # reply /\ reply'.op = "next-batch")) =>
             (pc = "loop" /\ commit_no = level /\ results = <<>>)]_vars
    /\ [][store' # store =>
             /\ pc = "run" /\ \A i \in 1..Len(results) : results[i] # Pending
             /\ commit_no' = commit_no + 1 /\ commit_no' = level
             /\ pc' = "loop"]_vars
    /\ [](commit_no = IF pc = "run" \/ reply.op = "save" THEN level - 1 ELSE level)

C16_Witness ==
    /\ pc = "run" /\ commit_no = 1 /\ level = 2 /\ Len(batch) = 2
    /\ results[1] = Pending /\ results[2] # Pending /\ results[2].status = "ok"

\* the condition texts of rows, as they are stored
Texts(rows) == [i \in 1..Len(rows) |-> rows[i].condition_text]

\* result r is in the tables with its summary and all of its conditions
StoredWhole(r, fns, pre, post) ==
    /\ fns[r.function_id].summary = r.summary
    /\ Texts(pre[r.function_id]) = r.preconditions
    /\ Texts(post[r.function_id]) = r.postconditions

\* C17: when save_results_to_db ends, normally or by an error at one of its
\* statements, either every successful result of the batch is stored with its summary
\* and all of its conditions or the store is as it was before the call; and run
\* statement by statement to its commit it writes what the loop as a whole writes.
C17_CommitIsAtomic ==
    /\ [][(pc = "run" /\ pc' # "run") =>
             \/ \A i \in 1..Len(results) :
                    results[i].status = "ok" =>
                        StoredWhole(results[i], functions', preconditions',
                                    postconditions')
             \/ UNCHANGED store]_vars
    /\ [](pc = "run" =>
            LET stmts == Statements(Successful(results))
            IN Committed(stmts, Len(stmts),
                         [functions |-> functions, preconditions |-> preconditions,
                          postconditions |-> postconditions])
               = save_results_to_db(Successful(results), functions, preconditions,
                                    postconditions))

C17_Witness ==
    /\ pc = "done" /\ reply.op = "save" /\ reply.status = "error"
    /\ Len(results) = 2
    /\ \A i \in 1..2 :
          /\ results[i].status = "ok" /\ results[i].preconditions # <<>>
          /\ ~Annotated(results[i].function_id)
          /\ preconditions[results[i].function_id] = <<>>

\* C18: once a function has been committed, its stored preconditions read back in
\* sequence_order are exactly the list of preconditions the oracle returned for it
\* (as parse_annotations read it), complete and in the same order, and likewise its
\* postconditions.
C18_ConditionsReadBackAsReturned ==
    \A f \in FuncIds :
        commits[f] = 1 =>
            /\ ReadBacks(preconditions[f]) = {oracle_returned[f].pre}
            /\ ReadBacks(postconditions[f]) = {oracle_returned[f].post}

\* some task of the batch returned status ok for f
OkResultFor(f) ==
    \E i \in 1..Len(results) : results[i].status = "ok" /\ results[i].function_id = f

\* C31: a batch commit writes only the functions whose task returned status ok: in
\* every step of the driver the summary and the conditions of every function whose
\* task returned an error, and of every function outside the batch, stay as they
\* are, and a commit writes the result of every task that returned ok, whatever the
\* other tasks of the batch returned.
C31_CommitWritesOnlyOk ==
    [][/\ \A f \in FuncIds :
              ~OkResultFor(f) =>
                  /\ functions'[f] = functions[f]
                  /\ preconditions'[f] = preconditions[f]
                  /\ postconditions'[f] = postconditions[f]
       /\ commit_no' # commit_no =>
              \A i \in 1..Len(results) :
                  results[i].status = "ok" =>
                      LET f == results[i].function_id
                      IN /\ functions'[f].summary = results[i].summary
                         /\ Len(preconditions'[f]) =
                               Len(preconditions[f]) + Len(results[i].preconditions)
                         /\ Len(postconditions'[f]) =
                               Len(postconditions[f]) + Len(results[i].postconditions)]_vars

C31_Witness ==
    /\ pc = "loop" /\ level = 1 /\ commit_no = 1
    /\ last_committed # {}
    /\ \E f \in task_errors : ~Annotated(f) /\ preconditions[f] = <<>>
    /\ \E g \in FuncIds : g \notin last_committed /\ g \notin task_errors

---------------------------------------------------------------------------
(* The commands of summarizer.py and direct commits, in any order *)

SummaryArgs == {EmptyStr, <<Space>>, <<"T1">>}
NameArgs == {NameOf(1), NameOf(2), <<"nobody">>}
IdArgs == 0..(NumFuncs + 1)

ResultArg(function_id, status, summary) ==
    [function_id |-> function_id, name |-> NameOf(function_id), status |-> status,
     summary |-> summary, preconditions |-> <<>>, postconditions |-> <<>>]

ResultArgs ==
    {<<>>} \cup {<<ResultArg(f, st, sm)>> :
                    f \in 1..NumFuncs, st \in {"ok", "error"}, sm \in SummaryArgs}

StoreInit ==
    /\ \E n \in 0..NumFuncs :
         /\ functions = [f \in 1..n |->
                           [name |-> NameOf(f), file |-> FileOf(f), summary |-> EmptyStr]]
         /\ call_edges \in EdgeSets(n, MaxStoreEdges)
    /\ preconditions = [f \in FuncIds |-> <<>>]
    /\ postconditions = [f \in FuncIds |-> <<>>]
    /\ reply = NoReply
    /\ InitHistory
    /\ NoProject
    /\ pc = "idle"
    /\ count = 0
    /\ batch_size = 0
    /\ total_processed = 0
    /\ level = 0
    /\ batch = <<>>
    /\ results = <<>>

\* summarizer.py next
CmdNext ==
    /\ reply' = get_next_target
    /\ UNCHANGED <<repo, store, driver, history>>

\* summarizer.py next-batch --max N
CmdNextBatch ==
    /\ \E N \in BatchSizes : \E rows \in BatchRows(N) :
         reply' = get_next_batch(rows, N)
    /\ UNCHANGED <<repo, store, driver, history>>

\* summarizer.py update --function NAME --summary TEXT [--function-id ID]
CmdUpdate ==
    /\ \E name \in NameArgs, summary \in SummaryArgs, id \in IdArgs :
         LET u == update_summary(name, summary, id)
         IN /\ reply' = u.reply
            /\ functions' = u.functions
    /\ UNCHANGED <<repo, call_edges, preconditions, postconditions, driver, history>>

\* save_results_to_db(results) called on its own
DirectSave ==
    /\ \E rs \in ResultArgs :
         LET saved == save_results_to_db(rs, functions, preconditions, postconditions)
         IN /\ functions' = saved.functions
            /\ preconditions' = saved.preconditions
            /\ postconditions' = saved.postconditions
    /\ reply' = [op |-> "save", status |-> "none"]
    /\ UNCHANGED <<repo, call_edges, driver, history>>

StoreNext == CmdNext \/ CmdNextBatch \/ CmdUpdate \/ DirectSave

StoreSpec == StoreInit /\ [][StoreNext]_vars

---------------------------------------------------------------------------
(* Claims on the store and its queries *)

\* C7: under any sequence of batch commits and update commands, with any arguments,
\* no stored summary changes from non-empty (here: holding visible text) to empty.
C7_SummaryNeverEmptiedAgain ==
    [][\A f \in FuncIds :
          Strip(functions[f].summary) # EmptyStr => functions'[f].summary # EmptyStr]_vars

BatchStatusRight(r) ==
    /\ r.status = "complete" <=> Unannotated = {}
    /\ r.status = "blocked" <=>
          (Unannotated # {} /\ ~ \E f \in FuncIds : IsReady(f))
    /\ r.status \notin {"complete", "blocked"} => (r.status = "ok" /\ r.batch # <<>>)

\* C9 as stated: for every store state and every limit N the reply of get_next_batch
\* is complete exactly when no summary is empty, blocked exactly when some summary
\* is empty and no unannotated function is ready, and otherwise ok with a batch.
C9_AsStated == reply.op = "next-batch" => BatchStatusRight(reply)

\* C9 (amended): the same for every limit N other than 0 (a negative N is no limit);
\* with N = 0 the batch is always empty, and the reply is complete when no summary is
\* empty and blocked otherwise, ready functions or not.
C9_StatusForNonZeroLimit ==
    reply.op = "next-batch" =>
        /\ reply.max # 0 => BatchStatusRight(reply)
        /\ reply.max = 0 =>
              /\ reply.batch = <<>>
              /\ reply.status = (IF Unannotated = {} THEN "complete" ELSE "blocked")

C9_Witness ==
    /\ reply.op = "next-batch" /\ reply.max = 1 /\ reply.status = "blocked"
    /\ \E f \in FuncIds : Annotated(f)

\* C10 (on a store that holds a function): get_next_target replies complete exactly
\* when no function has an empty summary, and replies something else than complete
\* when unannotated functions remain of which none is ready.
C10_TargetCompleteIffNoneLeft ==
    (reply.op = "next" /\ FuncIds # {}) =>
        /\ reply.status = "complete" <=> Unannotated = {}
        /\ (Unannotated # {} /\ ~ \E f \in FuncIds : IsReady(f))
              => reply.status # "complete"

\* C11: in every store state (that holds a function) the two query modes agree:
\* get_next_target returns a target exactly when get_next_batch with no limit returns
\* a non-empty batch, that target is a member of the batch, and the two report
\* complete in exactly the same states.
C11_QueryModesAgree ==
    FuncIds # {} =>
        LET target == get_next_target
        IN \A rows \in BatchRows(-1) :
               LET b == get_next_batch(rows, -1)
               IN /\ target.status = "needs_summary" <=> b.batch # <<>>
                  /\ target.status = "needs_summary" =>
                        target.function_id \in Ids(b.batch)
                  /\ target.status = "complete" <=> b.status = "complete"

\* the call edges between unannotated functions, and the functions that lie on a
\* cycle of them
UnannotatedEdges == {e \in KnownEdges : e[1] \in Unannotated /\ e[2] \in Unannotated}

RECURSIVE UnannotatedReach(_, _)
UnannotatedReach(S, n) ==
    IF n = 0 THEN S
    ELSE UnannotatedReach(
             S \cup {e[2] : e \in {x \in UnannotatedEdges : x[1] \in S}}, n - 1)

CycleAmongUnannotated ==
    \E f \in Unannotated :
        f \in UnannotatedReach({e[2] : e \in {x \in UnannotatedEdges : x[1] = f}},
                               Cardinality(FuncIds))

\* C12 as stated: whenever get_next_batch replies blocked, the call edges between
\* unannotated functions contain a cycle.
C12_AsStated ==
    (reply.op = "next-batch" /\ reply.status = "blocked") => CycleAmongUnannotated

\* C12 (amended): whenever get_next_batch, asked with a limit N other than 0, replies
\* blocked, the call edges between unannotated functions contain a cycle (a self-loop
\* or a mutual recursion); with N = 0 it replies blocked whenever a summary is empty.
C12_BlockedMeansCycle ==
    reply.op = "next-batch" =>
        /\ (reply.max # 0 /\ reply.status = "blocked") => CycleAmongUnannotated
        /\ (reply.max = 0 /\ Unannotated # {}) => reply.status = "blocked"

C12_Witness ==
    /\ reply.op = "next-batch" /\ reply.max = -1 /\ reply.status = "blocked"
    /\ \E f, g \in Unannotated : f # g /\ <<f, g>> \in call_edges /\ <<g, f>> \in call_edges
    /\ \E h \in FuncIds : Annotated(h)

\* what the reply of get_next_batch promises whatever the limit: no function twice,
\* every function of the batch unannotated and ready, and total_remaining the number
\* of all functions with an empty summary
BatchContentRight(r) ==
    /\ \A i, j \in 1..Len(r.batch) :
           r.batch[i].function_id = r.batch[j].function_id => i = j
    /\ \A i \in 1..Len(r.batch) :
           /\ r.batch[i].function_id \in Unannotated
           /\ IsReady(r.batch[i].function_id)
    /\ r.status = "ok" => r.total_remaining = Cardinality(Unannotated)

\* C21 as stated: get_next_batch with limit N returns at most N functions, without
\* repetition, each with an empty summary and ready, and reports as total_remaining
\* the number of all functions with an empty summary.
C21_AsStated ==
    reply.op = "next-batch" =>
        /\ Len(reply.batch) <= reply.max
        /\ BatchContentRight(reply)

\* C21 (amended): get_next_batch with a limit N >= 0 returns at most N functions, and
\* with a negative N (no limit) every ready function; in both cases without
\* repetition, each function of the batch has an empty summary and is ready, and the
\* total_remaining of an ok reply is the number of all functions with an empty
\* summary, those in the batch included.
C21_BatchWithinLimit ==
    reply.op = "next-batch" =>
        /\ reply.max >= 0 => Len(reply.batch) <= reply.max
        /\ reply.max < 0 => Ids(reply.batch) = {f \in FuncIds : IsReady(f)}
        /\ BatchContentRight(reply)

C21_Witness ==
    /\ reply.op = "next-batch" /\ reply.max = 1 /\ Len(reply.batch) = 1
    /\ Cardinality({f \in FuncIds : IsReady(f)}) >= 2
    /\ reply.total_remaining >= 2
    /\ \E f \in FuncIds : Annotated(f)

\* the functions without any outgoing call edge
Leaves == {f \in FuncIds : ~ \E ce \in call_edges : ce[1] = f}

\* C22: while every summary is empty, every function with zero outgoing call edges is
\* ready, whatever the other functions are, and get_next_batch returns it whenever the
\* number of ready functions does not exceed the limit N.
C22_LeavesInFirstBatch ==
    (reply.op = "next-batch" /\ Unannotated = FuncIds) =>
        \A f \in Leaves :
            /\ IsReady(f)
            /\ Cardinality({g \in FuncIds : IsReady(g)}) <= reply.max
                  => f \in Ids(reply.batch)

C22_Witness ==
    /\ reply.op = "next-batch" /\ reply.max = MaxBatch /\ Unannotated = FuncIds
    /\ Cardinality(FuncIds) = NumFuncs
    /\ Cardinality({g \in FuncIds : IsReady(g)}) = MaxBatch
    /\ \E f \in Leaves, g \in FuncIds : f \in Ids(reply.batch) /\ <<g, f>> \in call_edges

\* C26: every target get_next_target returns is a function with an empty summary all
\* of whose direct callees that exist in the store have a non-empty summary, in every
\* store state (cyclic graphs and annotated functions with unannotated callees
\* included).
C26_TargetIsReady ==
    (reply.op = "next" /\ reply.status = "needs_summary") =>
        /\ reply.function_id \in FuncIds
        /\ functions[reply.function_id].summary = EmptyStr
        /\ \A c \in KnownCallees(reply.function_id) : functions[c].summary # EmptyStr

\* C27: for every call of find_next_summary_target that get_next_target makes, the
\* flag returned as is_subtree_summarized is TRUE exactly when every function reachable
\* from the entry node through call edges, the entry included, is annotated (here:
\* has a summary holding visible text, as the traversal tests it).
C27_FlagMeansSubtreeAnnotated ==
    LET calls == TryRoots(Ascending(FuncIds), 1, {}).calls
    IN \A i \in 1..Len(calls) :
           calls[i].done <=>
               \A g \in {calls[i].entry} \cup Descendants(calls[i].entry) : Summarized(g)

\* C28: get_next_target ends on every finite call graph, self-recursion and mutual
\* recursion included; within one call of it the callees of each function are fetched
\* at most once, and a call on a visited node fetches nothing and returns no target.
C28_EachFunctionExpandedOnce ==
    LET run == TryRoots(Ascending(FuncIds), 1, {})
    IN /\ \A i, j \in 1..Len(run.expanded) : run.expanded[i] = run.expanded[j] => i = j
       /\ \A f \in FuncIds, v \in SUBSET FuncIds :
              f \in v =>
                  LET r == find_next_summary_target(f, v)
                  IN r.target = None /\ r.expanded = <<>> /\ r.visited = v

C28_Witness ==
    /\ reply.op = "next" /\ reply.status = "complete"
    /\ <<1, 1>> \in call_edges
    /\ \E f, g \in FuncIds :
           f # g /\ <<f, g>> \in call_edges /\ <<g, f>> \in call_edges
    /\ Len(TryRoots(Ascending(FuncIds), 1, {}).expanded) = NumFuncs

---------------------------------------------------------------------------
(* process_single_function on its own, over projects in which a name occurs in    *)
(* more than one file                                                              *)

MaxTaskFuncs == 2

TaskNames == {<<"a">>, <<"b">>}
TaskFiles == {<<"x.c">>, <<"y.c">>}

TaskInit ==
    /\ \E n \in 1..MaxTaskFuncs :
         /\ functions \in [1..n -> [name : TaskNames, file : TaskFiles,
                                    summary : {EmptyStr}]]
         /\ call_edges \in EdgeSets(n, MaxEdges)
    /\ preconditions = [f \in FuncIds |-> <<>>]
    /\ postconditions = [f \in FuncIds |-> <<>>]
    /\ reply = NoReply
    /\ InitHistory
    /\ NoProject
    /\ pc = "task"
    /\ count = 0
    /\ batch_size = 0
    /\ total_processed = 0
    /\ level = 0
    /\ batch = <<>>
    /\ results = <<>>

\* process_single_function(func_info) for a row of the functions table
RunTask ==
    /\ pc = "task"
    /\ \E f \in FuncIds, ctx \in ContextRuns, sum \in SummaryRuns, ann \in AnnotationRuns :
         LET result == process_single_function(BatchRow(f), ctx, sum, ann)
         IN /\ batch' = <<BatchRow(f)>>
            /\ results' = <<result>>
            /\ oracle_failed' =
                  IF result.status = "ok" /\ call_copilot(sum) = EmptyResponse
                  THEN {f} ELSE {}
            /\ oracle_returned' =
                  IF result.status = "ok"
                  THEN [oracle_returned EXCEPT ![f] = parse_annotations(call_copilot(ann))]
                  ELSE oracle_returned
    /\ pc' = "done"
    /\ UNCHANGED <<repo, store, count, batch_size, total_processed, level, reply,
                   commit_no, annotated_at, commits, task_errors, last_committed>>

TaskSpec == TaskInit /\ [][RunTask]_vars

\* the oracle runs that give no summary, and those that give no well-formed conditions
FailedSummaryRuns ==
    {sum \in SummaryRuns :
        sum.timeout \/ sum.returncode # 0 \/ Strip(sum.stdout.text) = EmptyStr}

MalformedAnnotationRuns ==
    {ann \in AnnotationRuns :
        \/ ann.timeout \/ ann.returncode # 0 \/ Strip(ann.stdout.text) = EmptyStr
        \/ ann.stdout.json.kind # "object"
        \/ ~ann.stdout.json.pre_is_list \/ ~ann.stdout.json.post_is_list}

\* the names of the immediate callees of f, as its context lists them
CalleeNames(f) ==
    LET callees == get_function_context(f).callees
    IN [i \in 1..Len(callees) |-> callees[i].function]

\* the summary process_single_function gives f when the oracle runs are sum and ann
SummaryFor(f, sum, ann) == process_single_function(BatchRow(f), "ok", sum, ann).summary

\* the placeholder is never empty, and a conditions response that is missing or
\* malformed gives two empty lists
PlaceholderAndEmptyLists ==
    /\ \A f \in FuncIds, sum \in FailedSummaryRuns, ann \in AnnotationRuns :
           Strip(SummaryFor(f, sum, ann)) # EmptyStr
    /\ \A f \in FuncIds, sum \in SummaryRuns, ann \in MalformedAnnotationRuns :
           LET r == process_single_function(BatchRow(f), "ok", sum, ann)
           IN r.preconditions = <<>> /\ r.postconditions = <<>>
    /\ (results # <<>> /\ results[1].status = "ok") =>
           LET f == results[1].function_id
           IN /\ f \in oracle_failed =>
                    results[1].summary = FallbackSummary(functions[f].name,
                                                         get_function_context(f))
              /\ results[1].summary # EmptyStr

\* C19 as stated: the placeholder is a function of the function name and the callee
\* names alone (equal names and callee names give equal placeholders), it is not
\* empty, and a missing or malformed conditions response gives empty lists.
C19_AsStated ==
    /\ \A f, g \in FuncIds :
           (functions[f].name = functions[g].name /\ CalleeNames(f) = CalleeNames(g))
               => \A s1, s2 \in FailedSummaryRuns, ann \in AnnotationRuns :
                      SummaryFor(f, s1, ann) = SummaryFor(g, s2, ann)
    /\ PlaceholderAndEmptyLists

\* C19 (amended): the placeholder is a function of the function name, the callee
\* names and the file of the function (equal names, callee names and files give equal
\* placeholders, however the oracle failed), it is not empty, and a missing or
\* malformed conditions response gives empty lists.
C19_PlaceholderDeterministic ==
    /\ \A f, g \in FuncIds :
           (/\ functions[f].name = functions[g].name
            /\ CalleeNames(f) = CalleeNames(g)
            /\ functions[f].file = functions[g].file)
               => \A s1, s2 \in FailedSummaryRuns, ann \in AnnotationRuns :
                      SummaryFor(f, s1, ann) = SummaryFor(g, s2, ann)
    /\ PlaceholderAndEmptyLists

C19_Witness ==
    /\ results # <<>> /\ results[1].status = "ok"
    /\ results[1].function_id \in oracle_failed
    /\ results[1].preconditions = <<>> /\ results[1].postconditions = <<>>
    /\ \E g \in FuncIds :
          /\ g # results[1].function_id
          /\ functions[g] = functions[results[1].function_id]
          /\ CalleeNames(g) = CalleeNames(results[1].function_id)
          /\ CalleeNames(g) # <<>>

---------------------------------------------------------------------------
(* The update and annotate commands of summarizer.py, in any order *)

MaxRows == 2      \* at most this many rows per function in a condition table

AnnotationTypes == {"precondition", "postcondition"}
EditNames == {NameOf(1), <<"nobody">>}
EditIds == {0, 1, NumFuncs + 1}

EditInit ==
    /\ \E n \in 0..MaxTaskFuncs :
         functions = [f \in 1..n |->
                        [name |-> NameOf(f), file |-> FileOf(f), summary |-> EmptyStr]]
    /\ call_edges = {}
    /\ preconditions = [f \in FuncIds |-> <<>>]
    /\ postconditions = [f \in FuncIds |-> <<>>]
    /\ reply = NoReply
    /\ InitHistory
    /\ NoProject
    /\ pc = "idle"
    /\ count = 0
    /\ batch_size = 0
    /\ total_processed = 0
    /\ level = 0
    /\ batch = <<>>
    /\ results = <<>>

\* summarizer.py update, with the arguments of this section
EditUpdate ==
    /\ \E name \in EditNames, summary \in SummaryArgs, id \in EditIds :
         LET u == update_summary(name, summary, id)
         IN /\ reply' = u.reply
            /\ functions' = u.functions
    /\ UNCHANGED <<repo, call_edges, preconditions, postconditions, driver, history>>

\* summarizer.py annotate --function NAME --type TYPE --text TEXT [--function-id ID]
CmdAnnotate ==
    /\ \E name \in EditNames, type \in AnnotationTypes, id \in EditIds :
         LET a == add_annotation(name, type, <<"T2">>, id)
         IN /\ \A f \in DOMAIN a.preconditions : Len(a.preconditions[f]) <= MaxRows
            /\ \A f \in DOMAIN a.postconditions : Len(a.postconditions[f]) <= MaxRows
            /\ reply' = a.reply
            /\ preconditions' = a.preconditions
            /\ postconditions' = a.postconditions
    /\ UNCHANGED <<repo, functions, call_edges, driver, history>>

\* the results a batch of one task hands to save_results_to_db in this section
EditResults ==
    {<<[function_id |-> 1, name |-> NameOf(1), status |-> st, summary |-> <<"T1">>,
        preconditions |-> pre, postconditions |-> post]>> :
        st \in {"ok", "error"},
        pre \in {<<>>, <<"p1">>}, post \in {<<>>, <<"q1">>}}

\* a batch commit: save_results_to_db(results)
EditSave ==
    /\ \E rs \in EditResults :
         LET saved == save_results_to_db(rs, functions, preconditions, postconditions)
         IN /\ \A f \in DOMAIN saved.preconditions :
                   Len(saved.preconditions[f]) <= MaxRows
            /\ \A f \in DOMAIN saved.postconditions :
                   Len(saved.postconditions[f]) <= MaxRows
            /\ functions' = saved.functions
            /\ preconditions' = saved.preconditions
            /\ postconditions' = saved.postconditions
    /\ reply' = [op |-> "save", status |-> "none"]
    /\ UNCHANGED <<repo, call_edges, driver, history>>

EditNext == EditUpdate \/ CmdAnnotate \/ EditSave

EditSpec == EditInit /\ [][EditNext]_vars

\* the command names a function that does not exist: an id that is no row of
\* functions or, without an id, a name that no row carries
NotFound(name, id) ==
    IF id # 0 THEN id \notin FuncIds
    ELSE ~ \E f \in FuncIds : functions[f].name = name

\* C20: update_summary and add_annotation called with a name or an id that matches
\* no function reply with status error and leave every table unchanged.
C20_NotFoundIsNoOp ==
    \A name \in EditNames, id \in EditIds :
        NotFound(name, id) =>
            /\ \A summary \in SummaryArgs :
                   LET u == update_summary(name, summary, id)
                   IN u.reply.status = "error" /\ u.functions = functions
            /\ \A type \in AnnotationTypes :
                   LET a == add_annotation(name, type, <<"T2">>, id)
                   IN /\ a.reply.status = "error"
                      /\ a.preconditions = preconditions
                      /\ a.postconditions = postconditions

\* the sequence_order values of rows are pairwise distinct and form 0..k-1
FormsRange(rows) ==
    /\ \A i, j \in 1..Len(rows) :
           rows[i].sequence_order = rows[j].sequence_order => i = j
    /\ {rows[i].sequence_order : i \in 1..Len(rows)} = 0..(Len(rows) - 1)

\* C30: after any interleaving of add_annotation calls and batch commits, for every
\* function the sequence_order values of its stored preconditions are pairwise
\* distinct and form the range 0..k-1 (k the number of rows), and likewise for its
\* postconditions.
C30_SequenceOrdersFormRange ==
    \A f \in FuncIds :
        /\ FormsRange(RowsOf(preconditions, f))
        /\ FormsRange(RowsOf(postconditions, f))

---------------------------------------------------------------------------
(* query_repo.py: init on one source file *)

MaxDefs == 2      \* at most this many function definitions in a file
MaxCalls == 2     \* at most this many call sites in a function body

\* f(...), obj.member(...) or obj->member(...), Scope::f(...) and a called
\* expression without any name
Ident(n) == Expr(NoName, NoName, n)
Field(obj, member) == Expr(NoName, member, obj)
Qualified(text, n) == Expr(text, NoName, n)
Literal == Expr(NoName, NoName, NoName)

CallNodes(lang) ==
    {Call(Ident("a"), <<>>), Call(Ident("b"), <<>>), Call(Field("a", "b"), <<>>),
     Call(Literal, <<>>)}
    \cup (IF lang = "python" THEN {}
          ELSE {Call(Qualified("N::b", "b"), <<>>),
                Call(Ident("a"), <<Qualified("N::b", "b")>>)})

SeqsUpTo(S, n) == UNION {[1..k -> S] : k \in 0..n}

Trees(lang) ==
    [defs : SeqsUpTo([name : {"a", "b", NoName}, calls : SeqsUpTo(CallNodes(lang), MaxCalls)],
                     MaxDefs),
     macros : IF lang = "python" THEN {<<>>} ELSE {<<>>, <<"m">>}]

\* nothing in the store, the driver not running
NoStore ==
    /\ functions = <<>>
    /\ call_edges = {}
    /\ preconditions = <<>>
    /\ postconditions = <<>>
    /\ reply = NoReply
    /\ InitHistory
    /\ pc = "repo"
    /\ count = 0
    /\ batch_size = 0
    /\ total_processed = 0
    /\ level = 0
    /\ batch = <<>>
    /\ results = <<>>

ParseInit ==
    /\ \E lang \in {"c", "python"} : \E tree \in Trees(lang) :
         files = <<[path |-> IF lang = "c" THEN "x.c" ELSE "x.py", lang |-> lang,
                    tree |-> tree]>>
    /\ project_data = EmptyProjectData
    /\ NoStore

\* query_repo.init(proj_path)
InitProject ==
    /\ project_data' = init(project_data, files, 1)
    /\ reply' = [op |-> "init", status |-> "ok"]
    /\ UNCHANGED <<files, store, driver, history>>

ParseSpec == ParseInit /\ [][InitProject]_vars

\* the names the call sites in the bodies of the definitions named f give
CalledNames(file, f) ==
    {called_name_of(file.tree.defs[i].calls[j], file.lang) :
        <<i, j>> \in {x \in (1..Len(file.tree.defs)) \X (1..MaxCalls) :
                         /\ file.tree.defs[x[1]].name = f
                         /\ x[2] <= Len(file.tree.defs[x[1]].calls)}} \ {NoName}

\* the set d[key] of a dict of sets, empty for a key it does not hold
SetAt(d, key) == IF key \in DOMAIN d THEN d[key] ELSE <<>>

\* C24: for any sequence of call sites in a function body the builder records exactly
\* one edge per distinct (caller, callee name) pair, however often the callee is
\* called: the callees recorded for a function are the names its call sites give,
\* each once.
C24_OneEdgePerCallee ==
    reply.op = "init" =>
        \A k \in 1..Len(files) : \A f \in {"a", "b"} :
            LET edges == SetAt(project_data.function_callees[files[k].path], f)
            IN /\ \A i, j \in 1..Len(edges) : edges[i] = edges[j] => i = j
               /\ Range(edges) = CalledNames(files[k], f)

C24_Witness ==
    /\ reply.op = "init"
    /\ Len(files[1].tree.defs) = 1
    /\ files[1].tree.defs[1].name = "a"
    /\ files[1].tree.defs[1].calls = <<Call(Ident("b"), <<>>), Call(Field("a", "b"), <<>>)>>
    /\ files[1].lang = "c"
    /\ project_data.function_callees["x.c"]["a"] = <<"b">>

\* C25: after parse_all_function_info has processed a file its two indexes agree:
\* callee c is in the callee set of function f if and only if f is in the caller set
\* of c.
C25_IndexesAgree ==
    reply.op = "init" =>
        \A path \in DOMAIN project_data.functions :
            LET callees == project_data.function_callees[path]
                callers == project_data.function_calls[path]
                names == DOMAIN callees \cup DOMAIN callers
                         \cup UNION {Range(callees[f]) : f \in DOMAIN callees}
                         \cup UNION {Range(callers[c]) : c \in DOMAIN callers}
            IN \A f, c \in names :
                   c \in Range(SetAt(callees, f)) <=> f \in Range(SetAt(callers, c))

C25_Witness ==
    /\ reply.op = "init"
    /\ "x.c" \in DOMAIN project_data.function_callees
    /\ DOMAIN project_data.function_callees["x.c"] = {"a", "b"}
    /\ Len(project_data.function_callees["x.c"]["a"]) = 2
    /\ Range(project_data.function_calls["x.c"]["b"]) = {"a", "b"}

\* the name of the function a call node calls, by the priority qualified name, then
\* trailing member, then plain identifier, read from the called expression alone
CalledFunction(call_node) ==
    IF call_node.fn.qualified # NoName THEN call_node.fn.qualified
    ELSE IF call_node.fn.field # NoName THEN call_node.fn.field
    ELSE call_node.fn.identifier

\* C34: for each call node in the body of a recognized C/C++ function the builder
\* derives at most one callee name, by the priority qualified name, trailing member,
\* plain identifier; the name is that of the function called, never one that occurs
\* only in the arguments, and a call of none of the three forms adds no edge: the
\* callees recorded for a function are the names of the functions its call sites
\* call.
C34_CalleeIsTheCalledFunction ==
    reply.op = "init" =>
        \A k \in 1..Len(files) :
            files[k].lang = "c" =>
                \A f \in {"a", "b"} :
                    Range(SetAt(project_data.function_callees[files[k].path], f))
                        = {CalledFunction(files[k].tree.defs[x[1]].calls[x[2]]) :
                             x \in {y \in (1..Len(files[k].tree.defs)) \X (1..MaxCalls) :
                                      /\ files[k].tree.defs[y[1]].name = f
                                      /\ y[2] <= Len(files[k].tree.defs[y[1]].calls)}}
                          \ {NoName}

---------------------------------------------------------------------------
(* query_repo.py: build_call_graph on a project of two files that may define the *)
(* same names                                                                     *)

Def(name, calls) == [name |-> name, calls |-> calls]

SimpleCalls ==
    {<<>>, <<Call(Ident("a"), <<>>)>>, <<Call(Ident("b"), <<>>)>>,
     <<Call(Ident("c"), <<>>)>>,
     <<Call(Ident("a"), <<>>), Call(Ident("b"), <<>>)>>,
     <<Call(Ident("b"), <<>>), Call(Ident("c"), <<>>)>>}

\* definitions of a and b, each there or not, and then c, which calls nothing, or not
SimpleTrees ==
    {[defs |-> defs \o last, macros |-> <<>>] :
        defs \in {<<>>}
                 \cup {<<Def("a", ca)>> : ca \in SimpleCalls}
                 \cup {<<Def("b", cb)>> : cb \in SimpleCalls}
                 \cup {<<Def("a", ca), Def("b", cb)>> : ca \in SimpleCalls, cb \in SimpleCalls},
        last \in {<<>>, <<Def("c", <<>>)>>}}

RepoInit ==
    /\ \E t1 \in SimpleTrees, t2 \in SimpleTrees :
         files = <<[path |-> "x.c", lang |-> "c", tree |-> t1],
                   [path |-> "y.c", lang |-> "c", tree |-> t2]>>
    /\ project_data = EmptyProjectData
    /\ NoStore

\* query_repo.build_call_graph(function_name, file_path=...)
BuildCallGraph ==
    /\ \E function_name \in {"a", "b"}, file_path \in {NoPath, "x.c", "y.c"} :
         \E r \in build_call_graph(function_name, {}, file_path) :
             reply' = [op |-> "build_call_graph", function |-> function_name,
                       file |-> file_path, graph |-> r.graph]
    /\ UNCHANGED <<repo, store, driver, history>>

RepoNext == InitProject \/ BuildCallGraph

RepoSpec == RepoInit /\ [][RepoNext]_vars

\* the file defines the name
Defines(path, name) ==
    /\ path \in DOMAIN project_data.functions
    /\ name \in DOMAIN project_data.functions[path]

\* a node that stands for a function whose callees were read
Expanded(g) == "file" \in DOMAIN g /\ g.file # "unknown"

\* in the graph every callee that the caller's own file defines was taken from that
\* file
RECURSIVE CalleesFromCallerFile(_)
CalleesFromCallerFile(g) ==
    Expanded(g) =>
        \A i \in 1..Len(g.calls) :
            LET c == g.calls[i]
            IN /\ (Expanded(c) /\ Defines(g.file, c.function)) => c.file = g.file
               /\ CalleesFromCallerFile(c)

\* C23: when two files define a function of the same name the two stay distinct:
\* build_call_graph for a name and the file that defines it reads the callees of that
\* file's function, and each callee it resolves that the caller's own file defines
\* is that file's function, never the same-named function of the other file.
C23_SameNameKeptApart ==
    (reply.op = "build_call_graph" /\ Defines(reply.file, reply.function)) =>
        /\ reply.graph.file = reply.file
        /\ CalleesFromCallerFile(reply.graph)

\* C23, the commands that take a name: update_summary and add_annotation addressed to
\* a function by its name write that function and no same-named function of another
\* file.
C23_ByNameWritesAddressed ==
    \A g \in FuncIds :
        LET u == update_summary(functions[g].name, <<"T1">>, 0)
            a == add_annotation(functions[g].name, "precondition", <<"T2">>, 0)
        IN \A f \in FuncIds \ {g} :
               /\ u.functions[f] = functions[f]
               /\ RowsOf(a.preconditions, f) = RowsOf(preconditions, f)

\* the names of the nodes of a graph whose callees were read, one entry per node
RECURSIVE ExpandedNames(_)
RECURSIVE ExpandedNamesOf(_, _)
ExpandedNamesOf(calls, i) ==
    IF i > Len(calls) THEN <<>>
    ELSE ExpandedNames(calls[i]) \o ExpandedNamesOf(calls, i + 1)

ExpandedNames(g) ==
    IF Expanded(g) THEN <<g.function>> \o ExpandedNamesOf(g.calls, 1) ELSE <<>>

\* every marker node of the graph names a function that is an ancestor on its path
RECURSIVE MarkersCloseCycles(_, _)
MarkersCloseCycles(g, ancestors) ==
    IF "file" \notin DOMAIN g THEN g.function \in ancestors
    ELSE \A i \in 1..Len(g.calls) :
             MarkersCloseCycles(g.calls[i], ancestors \cup {g.function})

\* C33: build_call_graph ends on every finite call graph, reads the callees of each
\* function name at most once per top-level call, and returns the marker "Already
\* visited (cycle)" for a callee only when that callee is an ancestor on the current
\* call path, that is only for an edge that closes a cycle.
C33_MarkerOnlyForCycles ==
    reply.op = "build_call_graph" =>
        /\ LET names == ExpandedNames(reply.graph)
           IN \A i, j \in 1..Len(names) : names[i] = names[j] => i = j
        /\ MarkersCloseCycles(reply.graph, {})

---------------------------------------------------------------------------
(* The batch driver with summarizer.py update run by another process meanwhile *)

RaceInit ==
    /\ \E n \in 1..MaxTaskFuncs :
         /\ functions = [f \in 1..n |->
                           [name |-> NameOf(f), file |-> FileOf(f), summary |-> EmptyStr]]
         /\ call_edges \in EdgeSets(n, 1)
    /\ preconditions = [f \in FuncIds |-> <<>>]
    /\ postconditions = [f \in FuncIds |-> <<>>]
    /\ reply = NoReply
    /\ InitHistory
    /\ NoProject
    /\ pc = "loop"
    /\ count = MaxTaskFuncs
    /\ batch_size = MaxBatch
    /\ total_processed = 0
    /\ level = 0
    /\ batch = <<>>
    /\ results = <<>>

\* summarizer.py update --function NAME --summary TEXT --function-id ID, run while the
\* driver is between two of its steps
RaceUpdate ==
    /\ pc \in {"loop", "run"}
    /\ \E id \in FuncIds, summary \in {<<Space>>, <<"T1">>} :
         functions' = update_summary(NameOf(id), summary, id).functions
    /\ UNCHANGED <<repo, call_edges, preconditions, postconditions, driver, reply, history>>

RaceNext == Next \/ RaceUpdate

RaceSpec == RaceInit /\ [][RaceNext]_vars

\* C32: a function that is already annotated when its task fetches its context (an
\* update wrote it after the batch was computed) yields an error result, and the
\* commit of the batch leaves the function of an error result as it is, so the
\* existing summary is not overwritten.
C32_AnnotatedAtFetchNotWritten ==
    [][/\ \A i \in 1..Len(results) :
              (/\ pc = "run" /\ pc' = "run"
               /\ results[i] = Pending /\ results'[i] # Pending
               /\ functions[batch[i].function_id].summary # EmptyStr)
                  => results'[i].status = "error"
       /\ commit_no' # commit_no =>
              \A i \in 1..Len(results) :
                  results[i].status = "error" =>
                      functions'[results[i].function_id] =
                          functions[results[i].function_id]]_vars

====
